---- MODULE Spec2Model ----
(***************************************************************************)
(* amgraph: reads Alembic migration files from version directories,        *)
(* extracts (revision, down_revision), merges the directories' revisions   *)
(* and emits a Graphviz digraph.  This module models src/amgraph.py.       *)
(*                                                                         *)
(* Modelling conventions                                                   *)
(*  - A Python literal is a record [t, s, e]: t is its type ("None",       *)
(*    "str", "tuple", "list", or "nonliteral" for an expression that       *)
(*    ast.literal_eval rejects), s the text of a str, e the elements of a  *)
(*    tuple or list.                                                       *)
(*  - A raised exception is a result record with ok = FALSE and the name   *)
(*    of the exception in err.                                             *)
(*  - hash() of a tuple is taken to be collision free on the bounded       *)
(*    domain: the identity key is the hashed tuple itself.                 *)
(***************************************************************************)
EXTENDS Integers, Sequences, FiniteSets, TLC

VARIABLES args, fs, pc, dir_i, revision_groups, revisions, dot,
          stderr, status, io, output

vars == <<args, fs, pc, dir_i, revision_groups, revisions, dot,
          stderr, status, io, output>>

-----------------------------------------------------------------------------
(* Bounds of the model *)

MaxDirs == 2

MaxFiles == 2

MaxStmts == 3

MaxRevs == 2

MaxGroups == 2

-----------------------------------------------------------------------------
(* Python values *)

NoneV == [t |-> "None", s |-> "", e |-> <<>>]

StrV(x) == [t |-> "str", s |-> x, e |-> <<>>]

TupleV(es) == [t |-> "tuple", s |-> "", e |-> es]

ListV(es) == [t |-> "list", s |-> "", e |-> es]

NonLiteral == [t |-> "nonliteral", s |-> "", e |-> <<>>]

\* Lexicographic order of the identifiers used, as str.__lt__ orders them.
IdOrder == <<"a", "b", "c">>

Rank(x) == CHOOSE i \in 1..Len(IdOrder) : IdOrder[i] = x

\* bool(v): None, "", () and [] are falsy.
Truthy(v) ==
    CASE v.t = "None" -> FALSE
      [] v.t = "str" -> v.s # ""
      [] OTHER -> Len(v.e) > 0

\* Whether hash(v) succeeds: a list is unhashable.
Hashable(v) == v.t # "list"

\* Whether a < b is defined (str against str); None supports no ordering.
Orderable(a, b) == a.t = "str" /\ b.t = "str"

Less(a, b) == Rank(a.s) < Rank(b.s)

SeqUpTo(S, n) == UNION {[1..k -> S] : k \in 0..n}

Range(f) == {f[i] : i \in DOMAIN f}

-----------------------------------------------------------------------------
(* Revision *)

Revision(identifier, down_revision, filename, labels) ==
    [identifier |-> identifier, down_revision |-> down_revision,
     filename |-> filename, labels |-> labels]

NoFile == [dir |-> 0, stem |-> ""]

NoRevision == Revision(NoneV, <<>>, NoFile, <<>>)

Ok(rev) == [ok |-> TRUE, err |-> "", rev |-> rev]

Raise(exc) == [ok |-> FALSE, err |-> exc, rev |-> NoRevision]

\* ast.literal_eval
literal_eval(value) ==
    IF value.t = "nonliteral"
    THEN [ok |-> FALSE, err |-> "ValueError", val |-> NoneV]
    ELSE [ok |-> TRUE, err |-> "", val |-> value]

\* AstStep without the test of the number of targets: the first target of
\* any assignment is taken.
AstStepFirstTarget(acc, subnode) ==
    IF acc.err # "" THEN acc
    ELSE IF subnode.k # "Assign" THEN acc
    ELSE IF subnode.targets[1].kind # "Name"
         THEN [acc EXCEPT !.err = "AttributeError"]
    ELSE LET var_name == subnode.targets[1].id
             ev == literal_eval(subnode.value)
         IN  IF var_name = "revision"
             THEN IF ev.ok THEN [acc EXCEPT !.identifier = ev.val]
                  ELSE [acc EXCEPT !.err = ev.err]
             ELSE IF var_name = "down_revision"
             THEN IF ev.ok THEN [acc EXCEPT !.down_revision = ev.val]
                  ELSE [acc EXCEPT !.err = ev.err]
             ELSE acc

\* One iteration of the loop over the module's child nodes.  acc holds the
\* locals identifier and down_revision, and err once an exception is raised.
AstStep(acc, subnode) ==
    IF acc.err # "" THEN acc
    ELSE IF subnode.k # "Assign" THEN acc
    ELSE IF Len(subnode.targets) # 1 THEN acc
    ELSE IF subnode.targets[1].kind # "Name"
         THEN [acc EXCEPT !.err = "AttributeError"]
    ELSE LET var_name == subnode.targets[1].id
             ev == literal_eval(subnode.value)
         IN  IF var_name = "revision"
             THEN IF ev.ok THEN [acc EXCEPT !.identifier = ev.val]
                  ELSE [acc EXCEPT !.err = ev.err]
             ELSE IF var_name = "down_revision"
             THEN IF ev.ok THEN [acc EXCEPT !.down_revision = ev.val]
                  ELSE [acc EXCEPT !.err = ev.err]
             ELSE acc

RECURSIVE AstLoop(_, _)
AstLoop(acc, body) ==
    IF body = <<>> THEN acc
    ELSE AstLoop(AstStep(acc, Head(body)), Tail(body))

\* The tuple normalisation of down_revision.
NormalizeDown(down_revision) ==
    IF down_revision.t = "tuple" THEN down_revision.e ELSE <<down_revision>>

from_ast_node(node, filename) ==
    LET acc == AstLoop([identifier |-> NoneV, down_revision |-> NoneV,
                        err |-> ""], node)
    IN  IF acc.err # "" THEN Raise(acc.err)
        ELSE IF ~Truthy(acc.identifier) THEN Raise("ValueError")
        ELSE Ok(Revision(acc.identifier, NormalizeDown(acc.down_revision),
                         filename, <<>>))

\* sorted(): insertion of x into an ordered sequence; ok = FALSE when a
\* comparison raises TypeError.
RECURSIVE Insert(_, _)
Insert(x, sorted_seq) ==
    IF sorted_seq = <<>> THEN [ok |-> TRUE, val |-> <<x>>]
    ELSE IF ~Orderable(x, Head(sorted_seq)) THEN [ok |-> FALSE, val |-> <<>>]
    ELSE IF Less(x, Head(sorted_seq))
         THEN [ok |-> TRUE, val |-> <<x>> \o sorted_seq]
    ELSE LET rest == Insert(x, Tail(sorted_seq))
         IN  [ok |-> rest.ok, val |-> <<Head(sorted_seq)>> \o rest.val]

RECURSIVE Sorted(_)
Sorted(seq) ==
    IF Len(seq) <= 1 THEN [ok |-> TRUE, val |-> seq]
    ELSE LET rest == Sorted(Tail(seq))
         IN  IF ~rest.ok THEN rest ELSE Insert(Head(seq), rest.val)

\* identity without sorted(): the key keeps the order of down_revision.
identityUnsorted(self) ==
    LET key == <<self.identifier>> \o self.down_revision
    IN  IF (Len(self.down_revision) >= 2
            /\ \E i \in DOMAIN self.down_revision :
                 self.down_revision[i].t # "str")
           \/ \E i \in DOMAIN key : ~Hashable(key[i])
        THEN [ok |-> FALSE, key |-> <<>>]
        ELSE [ok |-> TRUE, key |-> key]

\* Revision.identity: ok = FALSE when sorted() or hash() raises TypeError.
identity(self) ==
    LET srt == Sorted(self.down_revision)
        key == <<self.identifier>> \o srt.val
    IN  IF ~srt.ok \/ \E i \in DOMAIN key : ~Hashable(key[i])
        THEN [ok |-> FALSE, key |-> <<>>]
        ELSE [ok |-> TRUE, key |-> key]

is_initial(self) == self.down_revision = <<NoneV>>

is_merge(self) == Len(self.down_revision) > 1

-----------------------------------------------------------------------------
(* Diagnostics, the file system log *)

Message(kind, subject, detail) ==
    [kind |-> kind, subject |-> subject, detail |-> detail]

\* What the interpreter writes for an exception nobody catches.
Traceback(exc) == Message("Traceback", "", exc)

IoEvent(op, dir, k) == [op |-> op, dir |-> dir, k |-> k]

\* element.name of the k-th entry of a directory, without its extension.
Stem(k) == "m" \o ToString(k)

Path(dir, k) == [dir |-> dir, stem |-> Stem(k)]

\* The three conditions of read_revisions: a regular file, named *.py,
\* other than __init__.py.
Eligible(element) == element.kind = "py"

-----------------------------------------------------------------------------
(* read_revisions *)

\* ReadStep that passes over a file it cannot extract instead of ending
\* the run.
ReadStepSkip(acc, versions, k, element) ==
    IF acc.outcome # "ok" THEN acc
    ELSE LET stat == Append(acc.io, IoEvent("is_file", versions, k))
         IN  IF ~Eligible(element) THEN [acc EXCEPT !.io = stat]
             ELSE LET read == Append(stat, IoEvent("read", versions, k))
                  IN  IF ~element.parses
                      THEN [acc EXCEPT !.io = read, !.outcome = "crash",
                                       !.msg = Traceback("SyntaxError")]
                      ELSE LET r == from_ast_node(element.body,
                                                  Path(versions, k))
                           IN  IF r.ok
                               THEN [acc EXCEPT !.io = read,
                                        !.revisions = Append(@, r.rev)]
                               ELSE [acc EXCEPT !.io = read]

\* One iteration over versions.iterdir().  acc.outcome is "ok" while the
\* loop runs, "exit" after print_err, "crash" after an uncaught exception.
ReadStep(acc, versions, k, element) ==
    IF acc.outcome # "ok" THEN acc
    ELSE LET stat == Append(acc.io, IoEvent("is_file", versions, k))
         IN  IF ~Eligible(element) THEN [acc EXCEPT !.io = stat]
             ELSE LET read == Append(stat, IoEvent("read", versions, k))
                  IN  IF ~element.parses
                      THEN [acc EXCEPT !.io = read, !.outcome = "crash",
                                       !.msg = Traceback("SyntaxError")]
                      ELSE LET r == from_ast_node(element.body,
                                                  Path(versions, k))
                           IN  IF r.ok
                               THEN [acc EXCEPT !.io = read,
                                        !.revisions = Append(@, r.rev)]
                               ELSE [acc EXCEPT !.io = read,
                                        !.outcome = "exit",
                                        !.msg = Message("UnableToReadFile",
                                                        Stem(k), r.err)]

RECURSIVE ReadLoop(_, _, _, _)
ReadLoop(acc, versions, k, elements) ==
    IF k > Len(elements) THEN acc
    ELSE ReadLoop(ReadStep(acc, versions, k, elements[k]),
                  versions, k + 1, elements)

read_revisions(versions, elements) ==
    ReadLoop([outcome |-> "ok", revisions |-> <<>>,
              io |-> <<IoEvent("iterdir", versions, 0)>>,
              msg |-> Message("", "", "")],
             versions, 1, elements)

-----------------------------------------------------------------------------
(* flatten_groups *)

\* Index in result of the revision whose identity is key, 0 when absent.
Lookup(result, key) ==
    IF \E j \in DOMAIN result : identity(result[j]).key = key
    THEN CHOOSE j \in DOMAIN result : identity(result[j]).key = key
    ELSE 0

\* An assignment result[key] = revision in place of setdefault: a later
\* record replaces the one first seen.
SetDefaultOverwrite(result, key, revision) ==
    IF Lookup(result, key) = 0 THEN Append(result, revision)
    ELSE [result EXCEPT ![Lookup(result, key)] = revision]

\* result.setdefault(revision.identity(), revision)
SetDefault(result, key, revision) ==
    IF Lookup(result, key) = 0 THEN Append(result, revision) ELSE result

\* The body of the inner loop for one revision of group i.
FlattenStep(acc, i, revision, dir_labels) ==
    IF acc.err # "" THEN acc
    ELSE LET id == identity(revision)
         IN  IF ~id.ok THEN [acc EXCEPT !.err = "TypeError"]
             ELSE LET result == SetDefault(acc.val, id.key, revision)
                      j == Lookup(result, id.key)
                  IN  IF dir_labels = <<>> THEN [acc EXCEPT !.val = result]
                      ELSE IF i > Len(dir_labels)
                           THEN [acc EXCEPT !.val = result,
                                            !.err = "IndexError"]
                      ELSE [acc EXCEPT !.val =
                              [result EXCEPT ![j].labels =
                                  Append(@, dir_labels[i])]]

RECURSIVE FlattenGroup(_, _, _, _)
FlattenGroup(acc, i, group, dir_labels) ==
    IF group = <<>> THEN acc
    ELSE FlattenGroup(FlattenStep(acc, i, Head(group), dir_labels),
                      i, Tail(group), dir_labels)

RECURSIVE FlattenLoop(_, _, _, _)
FlattenLoop(acc, i, groups, dir_labels) ==
    IF i > Len(groups) THEN acc
    ELSE FlattenLoop(FlattenGroup(acc, i, groups[i], dir_labels),
                     i + 1, groups, dir_labels)

flatten_groups(groups, dir_labels) ==
    FlattenLoop([err |-> "", val |-> <<>>], 1, groups, dir_labels)

-----------------------------------------------------------------------------
(* create_graph *)

NoKey == <<>>

NoLabel == [primary |-> "", labels |-> <<>>]

DotStmt(k, name, val, id, id2, label) ==
    [k |-> k, name |-> name, val |-> val, id |-> id, id2 |-> id2,
     label |-> label]

\* dot.attr("graph", name=val) and dot.attr("node", name=val)
GraphAttr(name, val) == DotStmt("graph", name, val, NoKey, NoKey, NoLabel)

NodeAttr(name, val) == DotStmt("attr", name, val, NoKey, NoKey, NoLabel)

\* dot.node(id, label=label) and dot.edge(tail, head)
Node(id, label) == DotStmt("node", "", "", id, NoKey, label)

Edge(tail, head) == DotStmt("edge", "", "", tail, head, NoLabel)

\* The label text: its first line and the group labels joined under it.
NodeLabel(revision, short_node_labels) ==
    [primary |-> IF short_node_labels THEN revision.identifier.s
                 ELSE revision.filename.stem,
     labels |-> revision.labels]

\* NodeStmts that sets the attributes of special nodes only and never
\* resets them.
NodeStmtsSticky(revision, short_node_labels) ==
    (IF is_initial(revision) THEN <<NodeAttr("peripheries", "2")>> ELSE <<>>)
    \o (IF is_merge(revision) THEN <<NodeAttr("shape", "box")>> ELSE <<>>)
    \o <<Node(identity(revision).key, NodeLabel(revision, short_node_labels))>>

\* The body of the first loop: two attribute statements, then the node.
NodeStmts(revision, short_node_labels) ==
    << NodeAttr("peripheries", IF is_initial(revision) THEN "2" ELSE "1"),
       NodeAttr("shape", IF is_merge(revision) THEN "box" ELSE "oval"),
       Node(identity(revision).key, NodeLabel(revision, short_node_labels)) >>

RECURSIVE NodeLoop(_, _)
NodeLoop(revs, short_node_labels) ==
    IF revs = <<>> THEN <<>>
    ELSE NodeStmts(Head(revs), short_node_labels)
         \o NodeLoop(Tail(revs), short_node_labels)

\* EdgeStmt that never reverses the edge.
EdgeStmtForward(revision, candidate, reverse) ==
    Edge(identity(revision).key, identity(candidate).key)

\* The edge of one (revision, candidate) match.
EdgeStmt(revision, candidate, reverse) ==
    IF reverse
    THEN Edge(identity(candidate).key, identity(revision).key)
    ELSE Edge(identity(revision).key, identity(candidate).key)

\* CandidateLoop that stops at the first candidate found.
RECURSIVE CandidateLoopFirst(_, _, _, _)
CandidateLoopFirst(revision, entry, candidates, reverse) ==
    IF candidates = <<>> THEN <<>>
    ELSE IF Head(candidates).identifier = entry
         THEN <<EdgeStmt(revision, Head(candidates), reverse)>>
    ELSE CandidateLoopFirst(revision, entry, Tail(candidates), reverse)

RECURSIVE CandidateLoop(_, _, _, _)
CandidateLoop(revision, entry, candidates, reverse) ==
    IF candidates = <<>> THEN <<>>
    ELSE (IF Head(candidates).identifier # entry THEN <<>>
          ELSE <<EdgeStmt(revision, Head(candidates), reverse)>>)
         \o CandidateLoop(revision, entry, Tail(candidates), reverse)

RECURSIVE EntryLoop(_, _, _, _)
EntryLoop(revision, entries, revs, reverse) ==
    IF entries = <<>> THEN <<>>
    ELSE CandidateLoop(revision, Head(entries), revs, reverse)
         \o EntryLoop(revision, Tail(entries), revs, reverse)

RECURSIVE EdgeLoop(_, _, _)
EdgeLoop(todo, revs, reverse) ==
    IF todo = <<>> THEN <<>>
    ELSE (IF is_initial(Head(todo)) THEN <<>>
          ELSE EntryLoop(Head(todo), Head(todo).down_revision, revs, reverse))
         \o EdgeLoop(Tail(todo), revs, reverse)

\* The statement emitted before flattening.
RankDir(reverse) ==
    IF reverse THEN <<GraphAttr("rankdir", "BT")>> ELSE <<>>

NoDot == [name |-> "", body |-> <<>>]

create_graph(name, groups, dir_labels, short_node_labels, reverse) ==
    LET flat == flatten_groups(groups, dir_labels)
    IN  IF flat.err # ""
        THEN [err |-> flat.err, revisions |-> <<>>, dot |-> NoDot]
        ELSE [err |-> "", revisions |-> flat.val,
              dot |-> [name |-> name,
                       body |-> RankDir(reverse)
                                \o NodeLoop(flat.val, short_node_labels)
                                \o EdgeLoop(flat.val, flat.val, reverse)]]

-----------------------------------------------------------------------------
(* Inputs: files, directories, command lines *)

Name(id) == [kind |-> "Name", id |-> id]

\* A target without an id attribute: Attribute, Subscript, Tuple.
Target(kind) == [kind |-> kind, id |-> ""]

Assign(targets, value) == [k |-> "Assign", targets |-> targets, value |-> value]

\* Any child node that is no ast.Assign (Import, Expr, AnnAssign, ...).
OtherStmt == [k |-> "Other", targets |-> <<>>, value |-> NoneV]

PyFile(body) == [kind |-> "py", parses |-> TRUE, body |-> body]

\* __init__.py, which read_revisions passes over.
InitPy == [kind |-> "init", parses |-> TRUE, body |-> <<>>]

\* A .py file ast.parse rejects.
BrokenPy == [kind |-> "py", parses |-> FALSE, body |-> <<>>]

SetRevision(x) == Assign(<<Name("revision")>>, StrV(x))

SetDown(v) == Assign(<<Name("down_revision")>>, v)

DirLabel(i) == "L" \o ToString(i)

Labels(m) == [i \in 1..m |-> DirLabel(i)]

\* All ways of cutting flat into n consecutive directory listings.
RECURSIVE SplitSet(_, _)
SplitSet(flat, n) ==
    IF n = 1 THEN {<<flat>>}
    ELSE UNION {{<<SubSeq(flat, 1, c)>> \o rest :
                   rest \in SplitSet(SubSeq(flat, c + 1, Len(flat)), n - 1)} :
                c \in 0..Len(flat)}

\* File systems of n paths holding the elements of flat; a path that is
\* no directory has no entries.
FsSet(flat, n) ==
    {[d \in 1..n |-> [is_dir |-> d \notin nd, elements |-> sp[d]]] :
       <<sp, nd>> \in {x \in SplitSet(flat, n) \X SUBSET (1..n) :
                         \A d \in x[2] : x[1][d] = <<>>}}

Args(n, dir_labels, suffix, short_node_labels, reverse) ==
    [version_dirs |-> [d \in 1..n |-> d], dir_labels |-> dir_labels,
     output |-> [stem |-> "output", suffix |-> suffix],
     short_node_labels |-> short_node_labels, reverse |-> reverse]

NoOutput == [filename |-> "", format |-> "", dot |-> NoDot]

\* The state in which main starts.
Start(a, f) ==
    /\ args = a
    /\ fs = f
    /\ pc = "main"
    /\ dir_i = 0
    /\ revision_groups = <<>>
    /\ revisions = <<>>
    /\ dot = NoDot
    /\ stderr = <<>>
    /\ status = -1
    /\ io = <<>>
    /\ output = NoOutput

\* The files of the end-to-end runs.
MainElements ==
    { PyFile(<<SetRevision("a")>>),
      PyFile(<<SetRevision("b"), SetDown(StrV("a"))>>),
      PyFile(<<SetDown(StrV("a"))>>),
      PyFile(<<SetRevision("a"), Assign(<<Target("Attribute")>>, StrV("b"))>>),
      PyFile(<<SetRevision("b"),
               SetDown(ListV(<<StrV("a"), StrV("c")>>))>>),
      InitPy, BrokenPy }

Init ==
    \E n \in 1..MaxDirs :
      \E flat \in SeqUpTo(MainElements, MaxFiles) :
        \E f \in FsSet(flat, n) :
          \E dir_labels \in {<<>>} \cup {Labels(m) : m \in 1..MaxDirs} :
            \E suffix \in {"", ".png"} :
              \E short_node_labels \in BOOLEAN, reverse \in BOOLEAN :
                Start(Args(n, dir_labels, suffix, short_node_labels, reverse), f)

-----------------------------------------------------------------------------
(* main *)

\* print_err: the message goes to stderr and exit(1) ends the run.
print_err(msg) ==
    /\ stderr' = Append(stderr, msg)
    /\ status' = 1
    /\ pc' = "exited"

\* An exception that reaches the top level: traceback, exit status 1.
Uncaught(exc) ==
    /\ stderr' = Append(stderr, Traceback(exc))
    /\ status' = 1
    /\ pc' = "crashed"

\* Validate with the two checks in the other order.
ValidateSuffixFirst ==
    /\ pc = "main"
    /\ IF args.output.suffix = ""
       THEN /\ print_err(Message("MissingOutputExtension", "", ""))
            /\ UNCHANGED dir_i
       ELSE IF args.dir_labels # <<>>
               /\ Len(args.dir_labels) # Len(args.version_dirs)
       THEN /\ print_err(Message("LabelCountMismatch", "",
                                 ToString(Len(args.dir_labels))))
            /\ UNCHANGED dir_i
       ELSE /\ pc' = "loop"
            /\ dir_i' = 1
            /\ UNCHANGED <<stderr, status>>
    /\ UNCHANGED <<args, fs, revision_groups, revisions, dot, io, output>>

\* The two checks of the arguments.
Validate ==
    /\ pc = "main"
    /\ IF args.dir_labels # <<>>
          /\ Len(args.dir_labels) # Len(args.version_dirs)
       THEN /\ print_err(Message("LabelCountMismatch", "",
                                 ToString(Len(args.dir_labels))))
            /\ UNCHANGED dir_i
       ELSE IF args.output.suffix = ""
       THEN /\ print_err(Message("MissingOutputExtension", "", ""))
            /\ UNCHANGED dir_i
       ELSE /\ pc' = "loop"
            /\ dir_i' = 1
            /\ UNCHANGED <<stderr, status>>
    /\ UNCHANGED <<args, fs, revision_groups, revisions, dot, io, output>>

\* One iteration of the loop over args.version_dirs.  The message of the
\* is_dir branch reads args.versions, an attribute the namespace lacks,
\* so building it raises AttributeError before print_err is called.
LoopDir ==
    /\ pc = "loop"
    /\ LET version_dir == args.version_dirs[dir_i]
           checked == Append(io, IoEvent("is_dir", version_dir, 0))
       IN  IF ~fs[version_dir].is_dir
           THEN /\ Uncaught("AttributeError")
                /\ io' = checked
                /\ UNCHANGED <<dir_i, revision_groups>>
           ELSE LET r == read_revisions(version_dir, fs[version_dir].elements)
                IN  /\ io' = checked \o r.io
                    /\ CASE r.outcome = "exit" ->
                              /\ print_err(r.msg)
                              /\ UNCHANGED <<dir_i, revision_groups>>
                         [] r.outcome = "crash" ->
                              /\ Uncaught(r.msg.detail)
                              /\ UNCHANGED <<dir_i, revision_groups>>
                         [] OTHER ->
                              /\ revision_groups' =
                                   Append(revision_groups, r.revisions)
                              /\ dir_i' = dir_i + 1
                              /\ pc' = IF dir_i = Len(args.version_dirs)
                                       THEN "create_graph" ELSE "loop"
                              /\ UNCHANGED <<stderr, status>>
    /\ UNCHANGED <<args, fs, revisions, dot, output>>

\* The call of create_graph.
CreateGraph ==
    /\ pc = "create_graph"
    /\ LET r == create_graph(args.output.stem, revision_groups,
                             args.dir_labels, args.short_node_labels,
                             args.reverse)
       IN  IF r.err # ""
           THEN /\ Uncaught(r.err)
                /\ UNCHANGED <<revisions, dot>>
           ELSE /\ revisions' = r.revisions
                /\ dot' = r.dot
                /\ pc' = "render"
                /\ UNCHANGED <<stderr, status>>
    /\ UNCHANGED <<args, fs, dir_i, revision_groups, io, output>>

\* dot.render and the return from main.
Render ==
    /\ pc = "render"
    /\ output' = [filename |-> args.output.stem,
                  format |-> IF args.output.suffix = ".png" THEN "png" ELSE "",
                  dot |-> dot]
    /\ status' = 0
    /\ pc' = "done"
    /\ UNCHANGED <<args, fs, dir_i, revision_groups, revisions, dot,
                   stderr, io>>

Next == Validate \/ LoopDir \/ CreateGraph \/ Render

Spec == Init /\ [][Next]_vars

-----------------------------------------------------------------------------
(* Runs that start after the directories were read: the inputs of           *)
(* flatten_groups and create_graph                                          *)

\* The log of a loop over directories 1..d that met no error.
RECURSIVE IoOf(_, _)
IoOf(f, d) ==
    IF d = 0 THEN <<>>
    ELSE IoOf(f, d - 1) \o <<IoEvent("is_dir", d, 0)>>
         \o read_revisions(d, f[d].elements).io

\* The state main is in when its loop has read every directory of f.
Loaded(a, f) ==
    /\ args = a
    /\ fs = f
    /\ pc = "create_graph"
    /\ dir_i = Len(a.version_dirs) + 1
    /\ revision_groups =
         [d \in DOMAIN f |-> read_revisions(d, f[d].elements).revisions]
    /\ revisions = <<>>
    /\ dot = NoDot
    /\ stderr = <<>>
    /\ status = -1
    /\ io = IoOf(f, Len(a.version_dirs))
    /\ output = NoOutput

GraphIds == {"a", "b"}

GraphDowns ==
    { NoneV, StrV("a"),
      TupleV(<<StrV("a"), StrV("b")>>), TupleV(<<StrV("b"), StrV("a")>>),
      TupleV(<<StrV("a"), StrV("a")>>), TupleV(<<NoneV, StrV("a")>>) }

GraphElements ==
    {PyFile(<<SetRevision(x), SetDown(v)>>) : x \in GraphIds, v \in GraphDowns}

InitGraph ==
    \E n \in 1..MaxGroups :
      \E flat \in SeqUpTo(GraphElements, MaxRevs) :
        \E sp \in SplitSet(flat, n) :
          \E dir_labels \in {<<>>, Labels(n)} :
            \E short_node_labels \in BOOLEAN, reverse \in BOOLEAN :
              Loaded(Args(n, dir_labels, ".png", short_node_labels, reverse),
                     [d \in 1..n |-> [is_dir |-> TRUE, elements |-> sp[d]]])

NextGraph == CreateGraph \/ Render

SpecGraph == InitGraph /\ [][NextGraph]_vars

-----------------------------------------------------------------------------
(* Runs that read one file: the inputs of Revision.from_ast_node            *)

ExtractTargets ==
    { <<Name("revision")>>, <<Name("down_revision")>>, <<Name("x")>>,
      <<Name("revision"), Name("x")>>, <<Target("Attribute")>> }

ExtractValues ==
    { NoneV, StrV("a"), TupleV(<<StrV("a"), StrV("b")>>),
      ListV(<<StrV("a"), StrV("b")>>), NonLiteral }

ExtractStmts ==
    {OtherStmt} \cup {Assign(t, v) : t \in ExtractTargets, v \in ExtractValues}

\* The state main is in when its loop is about to read the only directory.
InitExtract ==
    \E body \in SeqUpTo(ExtractStmts, MaxStmts) :
      /\ args = Args(1, <<>>, ".png", FALSE, FALSE)
      /\ fs = <<[is_dir |-> TRUE, elements |-> <<PyFile(body)>>]>>
      /\ pc = "loop"
      /\ dir_i = 1
      /\ revision_groups = <<>>
      /\ revisions = <<>>
      /\ dot = NoDot
      /\ stderr = <<>>
      /\ status = -1
      /\ io = <<>>
      /\ output = NoOutput

NextExtract == LoopDir

SpecExtract == InitExtract /\ [][NextExtract]_vars

-----------------------------------------------------------------------------
(* Vocabulary of the properties *)

\* create_graph has returned.
FlatDone == pc \in {"render", "done"}

\* The records read from the directories, with the group of each.
Inputs ==
    UNION {{<<g, k>> : k \in DOMAIN revision_groups[g]} :
             g \in DOMAIN revision_groups}

Input(p) == revision_groups[p[1]][p[2]]

Occ(seq, v) == Cardinality({i \in DOMAIN seq : seq[i] = v})

\* Equal identifier, and the same entries with the same multiplicities.
SamePair(r1, r2) ==
    /\ r1.identifier = r2.identifier
    /\ Len(r1.down_revision) = Len(r2.down_revision)
    /\ \A v \in Range(r1.down_revision) :
         Occ(r1.down_revision, v) = Occ(r2.down_revision, v)

\* Equal identifier, and the same set of entries.
SameSet(r1, r2) ==
    /\ r1.identifier = r2.identifier
    /\ Range(r1.down_revision) = Range(r2.down_revision)

IsNode(stmt) == stmt.k = "node"

IsEdge(stmt) == stmt.k = "edge"

\* The node and edge statements of the emitted graph, in order.
NodeSeq == SelectSeq(dot.body, IsNode)

EdgeSeq == SelectSeq(dot.body, IsEdge)

\* The groups that hold a record of f's pair.
Containing(f) ==
    {g \in DOMAIN revision_groups :
       \E k \in DOMAIN revision_groups[g] : SamePair(revision_groups[g][k], f)}

GroupOfLabel(l) ==
    CHOOSE g \in DOMAIN args.dir_labels : args.dir_labels[g] = l

\* f's labels are the labels of the groups that hold its pair, in group
\* order, one per record of the pair.
LabelsOk(f) ==
    /\ Range(f.labels) = {args.dir_labels[g] : g \in Containing(f)}
    /\ \A i, j \in DOMAIN f.labels :
         i < j => GroupOfLabel(f.labels[i]) <= GroupOfLabel(f.labels[j])
    /\ \A g \in Containing(f) :
         Occ(f.labels, args.dir_labels[g]) =
           Cardinality({k \in DOMAIN revision_groups[g] :
                          SamePair(revision_groups[g][k], f)})

-----------------------------------------------------------------------------
(* C1 *)

-----------------------------------------------------------------------------
(* C2 *)

\* C2 as claimed: records are one node exactly when they have equal
\* identifier and equal down_revision as a set, so every record read has
\* exactly one flattened revision with its identifier and its set of entries.
C2_SetIdentity ==
    FlatDone =>
      \A p \in Inputs :
        Cardinality({j \in DOMAIN revisions :
                       SameSet(revisions[j], Input(p))}) = 1

\* C2 amended: records are one node exactly when they have equal identifier
\* and the same down_revision entries with the same multiplicities, in any
\* order: every record read has exactly one flattened revision of its pair,
\* that revision has the record's identity key, and the nodes of the
\* flattened revisions have pairwise different ids.
C2_MultisetIdentity ==
    FlatDone =>
      /\ \A p \in Inputs :
           /\ Cardinality({j \in DOMAIN revisions :
                             SamePair(revisions[j], Input(p))}) = 1
           /\ \A j \in DOMAIN revisions :
                SamePair(revisions[j], Input(p)) <=>
                  NodeSeq[j].id = identity(Input(p)).key
      /\ Len(NodeSeq) = Len(revisions)
      /\ \A j, k \in DOMAIN NodeSeq : NodeSeq[j].id = NodeSeq[k].id => j = k

\* Two records whose down_revision differ only in order became one node.
C2_Witness ==
    /\ FlatDone
    /\ \E p, q \in Inputs :
         /\ Input(p).down_revision # Input(q).down_revision
         /\ SamePair(Input(p), Input(q))
         /\ Len(Input(p).down_revision) = 2

-----------------------------------------------------------------------------
(* C3 *)

\* The value of node attribute name in force at position p of the body: the
\* last node-attribute statement before p sets it, else Graphviz's default.
AttrAt(p, name, default) ==
    LET before == {q \in 1..(p - 1) :
                     dot.body[q].k = "attr" /\ dot.body[q].name = name}
    IN  IF before = {} THEN default
        ELSE dot.body[CHOOSE q \in before : \A q2 \in before : q2 <= q].val

\* The position in the body of the j-th node statement.
NodePos(j) ==
    CHOOSE p \in DOMAIN dot.body :
      /\ IsNode(dot.body[p])
      /\ Cardinality({q \in 1..p : IsNode(dot.body[q])}) = j

\* C3: the node of every flattened revision is drawn by the revision's own
\* class, whatever came before it: double border exactly for down_revision
\* = (None,), shape box exactly for more than one down_revision entry, oval
\* and single border otherwise; and no revision is both initial and merge.
C3_Styling ==
    FlatDone =>
      /\ Len(NodeSeq) = Len(revisions)
      /\ \A j \in DOMAIN revisions :
           LET down == revisions[j].down_revision
               p == NodePos(j)
           IN  /\ AttrAt(p, "peripheries", "1") =
                    (IF down = <<NoneV>> THEN "2" ELSE "1")
               /\ AttrAt(p, "shape", "ellipse") =
                    (IF Len(down) > 1 THEN "box" ELSE "oval")
               /\ ~(is_initial(revisions[j]) /\ is_merge(revisions[j]))

\* A plain revision drawn after a merge, and one drawn after an initial one.
C3_Witness ==
    /\ FlatDone
    /\ \E i, k \in DOMAIN revisions :
         /\ i < k
         /\ is_merge(revisions[i])
         /\ ~is_initial(revisions[k]) /\ ~is_merge(revisions[k])

-----------------------------------------------------------------------------
(* C4, C5 *)

\* Number of edge statements from node id x to node id y.
EdgeCount(x, y) ==
    Cardinality({i \in DOMAIN EdgeSeq :
                   EdgeSeq[i].id = x /\ EdgeSeq[i].id2 = y})

\* Number of entries of r.down_revision that name c; none for an initial r.
Matches(r, c) ==
    IF r.down_revision = <<NoneV>> THEN 0
    ELSE Cardinality({i \in DOMAIN r.down_revision :
                        r.down_revision[i] = c.identifier})

\* Every edge statement joins two node statements.
EdgesJoinNodes ==
    \A i \in DOMAIN EdgeSeq :
      /\ \E j \in DOMAIN NodeSeq : NodeSeq[j].id = EdgeSeq[i].id
      /\ \E j \in DOMAIN NodeSeq : NodeSeq[j].id = EdgeSeq[i].id2

\* The run ended in a TypeError only if some record has no identity key: a
\* down_revision of two or more entries with None among them, or an
\* unhashable entry.
NoKeyFor(r) ==
    \/ Len(r.down_revision) >= 2 /\ \E v \in Range(r.down_revision) : v.t # "str"
    \/ \E v \in Range(r.down_revision) : v.t = "list"

\* C4: with reverse off the edges are one edge r -> c for every non-initial
\* flattened revision r, every entry of r.down_revision and every flattened
\* revision c whose identifier is that entry: none for an entry nobody
\* declares, one to each of several revisions declaring it, none out of an
\* initial revision; and an unmatched entry raises no error.
C4_Edges ==
    /\ (FlatDone /\ ~args.reverse) =>
         /\ Len(NodeSeq) = Len(revisions)
         /\ EdgesJoinNodes
         /\ \A j, k \in DOMAIN revisions :
              EdgeCount(NodeSeq[j].id, NodeSeq[k].id) =
                Matches(revisions[j], revisions[k])
    /\ (pc = "crashed" /\ Len(revision_groups) = Len(args.version_dirs)) =>
         \E p \in Inputs : NoKeyFor(Input(p))

\* An entry nobody declares, and an entry two revisions declare.
C4_Witness ==
    /\ FlatDone /\ ~args.reverse
    /\ \E j \in DOMAIN revisions :
         /\ ~is_initial(revisions[j])
         /\ \E i \in DOMAIN revisions[j].down_revision :
              \A k \in DOMAIN revisions :
                revisions[k].identifier # revisions[j].down_revision[i]
    /\ \E j, k, l \in DOMAIN revisions :
         /\ k # l
         /\ Matches(revisions[j], revisions[k]) > 0
         /\ Matches(revisions[j], revisions[l]) > 0

-----------------------------------------------------------------------------
(* C6, C7, C8 *)

LabelMismatch ==
    /\ args.dir_labels # <<>>
    /\ Len(args.dir_labels) # Len(args.version_dirs)

Last(seq) == seq[Len(seq)]

\* C6: a run whose label count differs from its directory count ends in
\* print_err with the count-mismatch diagnostic and status 1, and at no
\* point of it is a directory checked or listed, a file read, a revision
\* extracted, a graph built or an output rendered.
C6_LabelGuard ==
    LabelMismatch =>
      /\ io = <<>>
      /\ revision_groups = <<>>
      /\ revisions = <<>>
      /\ dot = NoDot
      /\ output = NoOutput
      /\ pc \in {"main", "exited"}
      /\ pc = "exited" =>
           /\ status = 1
           /\ Len(stderr) = 1
           /\ stderr[1].kind = "LabelCountMismatch"

\* A run with a label mismatch and a missing output extension has ended.
C6_Witness ==
    /\ LabelMismatch
    /\ args.output.suffix = ""
    /\ pc = "exited"

\* The file of a log event.
FileOf(ev) == fs[ev.dir].elements[ev.k]

\* A read file from which no Revision can be extracted.
BadFile(ev) ==
    /\ ev.op = "read"
    /\ FileOf(ev).parses
    /\ ~from_ast_node(FileOf(ev).body, Path(ev.dir, ev.k)).ok

\* C7: a file whose extraction fails is the last thing the run touches:
\* the run has ended with status 1 and the diagnostic naming that file,
\* nothing was flattened or rendered; and the graph is built and rendered
\* only when both argument checks passed, every path is a directory and
\* every eligible file of every directory parsed and yielded a Revision.
C7_FailFast ==
    /\ \A p \in DOMAIN io :
         BadFile(io[p]) =>
           /\ p = Len(io)
           /\ pc = "exited"
           /\ status = 1
           /\ Last(stderr) =
                Message("UnableToReadFile", Stem(io[p].k),
                        from_ast_node(FileOf(io[p]).body,
                                      Path(io[p].dir, io[p].k)).err)
           /\ revisions = <<>> /\ dot = NoDot /\ output = NoOutput
    /\ (pc \in {"render", "done"} \/ output # NoOutput) =>
         /\ ~LabelMismatch
         /\ args.output.suffix # ""
         /\ \A d \in DOMAIN fs :
              /\ fs[d].is_dir
              /\ \A k \in DOMAIN fs[d].elements :
                   Eligible(fs[d].elements[k]) =>
                     /\ fs[d].elements[k].parses
                     /\ from_ast_node(fs[d].elements[k].body, Path(d, k)).ok
                     /\ \E p \in DOMAIN io : io[p] = IoEvent("read", d, k)
    /\ status = 0 <=> output # NoOutput

\* The run ended at a bad file after a good file of the same directory was
\* read, with a directory still to come.
C7_Witness ==
    /\ pc = "exited"
    /\ io # <<>>
    /\ BadFile(Last(io))
    /\ Last(io).dir < Len(args.version_dirs)
    /\ \E p \in DOMAIN io :
         /\ io[p].op = "read"
         /\ ~BadFile(io[p])

\* C8 as claimed: a run that finds a path that is no directory ends through
\* print_err, with status 1 and one diagnostic line naming that path.
C8_NotADirectory ==
    (/\ pc \in {"exited", "crashed"}
     /\ io # <<>>
     /\ Last(io).op = "is_dir"
     /\ ~fs[Last(io).dir].is_dir) =>
      /\ status = 1
      /\ pc = "exited"
      /\ Last(stderr).kind = "NotADirectory"
      /\ Last(stderr).subject = ToString(Last(io).dir)

-----------------------------------------------------------------------------
(* C9, C10 *)

\* The directory of a one-file run has been read.
Read == pc # "loop"

TheBody == fs[1].elements[1].body

\* The assignments with exactly one target.
Single(body) ==
    {i \in DOMAIN body : body[i].k = "Assign" /\ Len(body[i].targets) = 1}

\* The single-target assignments to the plain name id.
Bindings(body, id) ==
    {i \in Single(body) : body[i].targets[1] = Name(id)}

\* The value the last such assignment gives, None without one.
Bound(body, id) ==
    IF Bindings(body, id) = {} THEN NoneV
    ELSE body[CHOOSE i \in Bindings(body, id) :
                \A j \in Bindings(body, id) : j <= i].value

\* The single-target assignments that raise: AttributeError for a target
\* that is no plain name, ValueError for a revision or down_revision whose
\* value is no literal.
Raising(body) ==
    {i \in Single(body) :
       \/ body[i].targets[1].kind # "Name"
       \/ /\ body[i].targets[1].id \in {"revision", "down_revision"}
          /\ body[i].value.t = "nonliteral"}

ErrorOf(stmt) ==
    IF stmt.targets[1].kind # "Name" THEN "AttributeError" ELSE "ValueError"

\* C9 as claimed: declarations with several targets, or with one target that
\* is no plain name, never make the extraction fail: when the plain
\* single-target bindings are literals and give a revision, the file yields
\* the Revision of that identifier.
C9_UnusualSkipped ==
    (/\ Read
     /\ \A i \in Bindings(TheBody, "revision") \cup
                 Bindings(TheBody, "down_revision") :
          TheBody[i].value.t # "nonliteral"
     /\ Truthy(Bound(TheBody, "revision"))) =>
      /\ pc = "create_graph"
      /\ revision_groups[1][1].identifier = Bound(TheBody, "revision")

\* C9 amended: only single-target assignments count.  Statements that are no
\* assignment and assignments with several targets are passed over and never
\* make the extraction fail; a single-target assignment whose target is no
\* plain name raises AttributeError, and the run ends with the diagnostic of
\* the first raising assignment; without one, the file yields the Revision
\* of the last plain revision binding, or ValueError when that is missing
\* or empty.
C9_SingleTargetOnly ==
    Read =>
      LET bad == Raising(TheBody)
          first == CHOOSE i \in bad : \A j \in bad : i <= j
          id == Bound(TheBody, "revision")
      IN  IF bad # {}
          THEN /\ pc = "exited"
               /\ stderr = <<Message("UnableToReadFile", Stem(1),
                                     ErrorOf(TheBody[first]))>>
          ELSE IF ~Truthy(id)
          THEN /\ pc = "exited"
               /\ stderr = <<Message("UnableToReadFile", Stem(1),
                                     "ValueError")>>
          ELSE /\ pc = "create_graph"
               /\ Len(revision_groups[1]) = 1
               /\ revision_groups[1][1].identifier = id

\* A file with a two-target assignment to revision yielded the Revision of
\* its plain binding.
C9_Witness ==
    /\ Read
    /\ pc = "create_graph"
    /\ \E i \in DOMAIN TheBody :
         /\ Len(TheBody[i].targets) = 2
         /\ TheBody[i].value # Bound(TheBody, "revision")
         /\ TheBody[i].value.t = "str"
         /\ \A j \in Bindings(TheBody, "revision") : j < i

\* C10: the extracted down_revision is the tuple of predecessors: (None,)
\* for an absent or None value, (s,) for a scalar s, the k entries of a
\* literal tuple or list; and one of two or more entries is a merge.
C10_Normalized ==
    (Read /\ pc = "create_graph") =>
      LET v == Bound(TheBody, "down_revision")
          rev == revision_groups[1][1]
      IN  /\ rev.down_revision =
               (IF v.t \in {"tuple", "list"} THEN v.e ELSE <<v>>)
          /\ (v.t \in {"tuple", "list"} /\ Len(v.e) >= 2) => is_merge(rev)

====
